---- MODULE Spec2Model ----
(***************************************************************************)
(* The event-driven backtesting engine of app/services/backtest.py         *)
(* (BacktestService) with the models of app/models/backtest.py.            *)
(*                                                                         *)
(* One run of run_backtest is a state machine: pc is the position in       *)
(* run_backtest / _run_simulation, portfolio is the dict built by          *)
(* _initialize_portfolio.  Prices, quantities and money are exact          *)
(* rationals <<numerator, denominator>> (the code uses floats).            *)
(*                                                                         *)
(* The historical data source and the indicator evaluator are external     *)
(* collaborators: the bars they return and the indicator values they       *)
(* compute are inputs of the run.  The names TrendDirection and            *)
(* SignalStrength used by the service are the enums of                     *)
(* app/models/technical.py.                                                *)
(***************************************************************************)
EXTENDS Integers, Sequences, FiniteSets, TLC

\* Number of distinct bar timestamps a data set may hold.
MaxT == 2

\* None, for a variable that holds nothing yet.
None == "None"

\* None in an Optional[float] field (rationals are tuples).
Unset == <<>>

----------------------------------------------------------------------------
(* Exact rational arithmetic: <<n, d>> with d > 0, in lowest terms. *)

RECURSIVE GCD(_, _)
GCD(a, b) == IF b = 0 THEN a ELSE GCD(b, a % b)

Abs(n) == IF n < 0 THEN -n ELSE n

Norm(n, d) ==
    LET s == IF d < 0 THEN -1 ELSE 1
        g == GCD(Abs(n), Abs(d))
    IN  <<(s * n) \div g, (s * d) \div g>>

R(n) == <<n, 1>>
Zero == R(0)
One == R(1)

RAdd(a, b) == Norm(a[1] * b[2] + b[1] * a[2], a[2] * b[2])
RSub(a, b) == Norm(a[1] * b[2] - b[1] * a[2], a[2] * b[2])
RMul(a, b) == Norm(a[1] * b[1], a[2] * b[2])
RDiv(a, b) == Norm(a[1] * b[2], a[2] * b[1])
RLt(a, b) == a[1] * b[2] < b[1] * a[2]
RLe(a, b) == a[1] * b[2] <= b[1] * a[2]
RAbs(a) == <<Abs(a[1]), a[2]>>

RECURSIVE RSum(_)
RSum(s) == IF s = <<>> THEN Zero ELSE RAdd(Head(s), RSum(Tail(s)))

----------------------------------------------------------------------------
(* Inputs of a run. *)

\* config.symbols, in the order of the list.
Symbols == <<"A", "B">>
SymbolSet == {Symbols[i] : i \in DOMAIN Symbols}

\* Close prices a bar may carry; 0 in a frame means "no bar at this timestamp".
Closes == [A |-> {2, 4}, B |-> {2}]

\* config.start_date
StartDate == 0

\* The timestamps a bar may carry: the requested range, from start_date on.
BarTimes == StartDate .. StartDate + MaxT - 1

\* None in an Optional[datetime] field (timestamps are integers).
NoTime == StartDate - 1

\* Keyword arguments a caller may hand to BacktestConfig: four that pass the
\* validators and four that do not.
Kwargs(capital, rate, size, stop, take) ==
    [initial_capital |-> capital,
     commission_rate |-> rate,
     slippage_rate   |-> rate,
     position_size   |-> size,
     stop_loss       |-> stop,
     take_profit     |-> take,
     max_positions   |-> 5]

RawConfigs ==
    { Kwargs(R(64), <<1, 4>>, <<1, 2>>, Unset, Unset),
      Kwargs(R(64), <<1, 4>>, <<1, 4>>, Unset, Unset),
      Kwargs(R(64), <<1, 4>>, <<1, 2>>, <<1, 4>>, Unset),
      Kwargs(R(64), <<1, 4>>, <<1, 2>>, Unset, <<1, 2>>),
      Kwargs(R(64), <<1, 4>>, <<3, 2>>, Unset, Unset),
      Kwargs(R(64), <<1, 4>>, Zero, Unset, Unset),
      Kwargs(R(64), Zero, <<1, 2>>, Unset, Unset),
      Kwargs(Zero, <<1, 4>>, <<1, 2>>, Unset, Unset) }

\* validate_positive and validate_position_size: TRUE iff construction succeeds.
validate_positive(v) == ~RLe(v, Zero)

\* A validator that has no upper limit.
validate_position_size_Unbounded(v) == ~RLe(v, Zero)

validate_position_size(v) == ~(RLe(v, Zero) \/ RLt(One, v))

BacktestConfigValid(raw) ==
    /\ validate_positive(raw.initial_capital)
    /\ validate_positive(raw.commission_rate)
    /\ validate_positive(raw.slippage_rate)
    /\ validate_positive(raw.position_size)
    /\ validate_position_size(raw.position_size)

\* Strategy configurations: one scalar indicator "sig"; entry and exit
\* conditions compare it with a value.
Cond(op, v, side) == [indicator |-> "sig", operator |-> op, value |-> v, side |-> side]

Strategies ==
    { \* one entry and one exit condition
      [entry_conditions |-> <<Cond("==", 1, "buy")>>,
       exit_conditions  |-> <<Cond("==", 2, "sell")>>],
      \* two entry conditions that match together
      [entry_conditions |-> <<Cond("==", 1, "buy"), Cond("==", 1, "buy")>>,
       exit_conditions  |-> <<Cond("==", 2, "sell")>>],
      \* two exit conditions that match together
      [entry_conditions |-> <<Cond("==", 1, "buy")>>,
       exit_conditions  |-> <<Cond("==", 2, "sell"), Cond(">", 1, "sell")>>],
      \* an entry condition whose side is not buy
      [entry_conditions |-> <<Cond("==", 1, "sell")>>,
       exit_conditions  |-> <<Cond("==", 2, "buy")>>] }

\* What calculate_indicator returns: a scalar, the not-a-number sentinel, or
\* a series (a sequence of numbers, the last one being the current value).
Scalar(v) == [scalar |-> v]
NotANumber == [nan |-> TRUE]
Series(s) == [series |-> s]

IsScalar(x) == "scalar" \in DOMAIN x
IsSeries(x) == "series" \in DOMAIN x

\* Values calculate_indicator may return for "sig" at a bar.
IndicatorValues == {Scalar(0), Scalar(1), Scalar(2)}

\* The entropy a run's uuid4 calls may draw from.
Seeds == {1, 2}

VARIABLES
    pc,          \* position in run_backtest
    config,      \* the BacktestConfig (raw keyword arguments before construction)
    strategy,    \* strategy.config
    portfolio,   \* the dict of _initialize_portfolio
    data,        \* symbol -> frame (timestamp -> close, 0: no bar)
    timestamps,  \* the sorted union of the frames' indices
    ti,          \* index into timestamps of the timestamp being simulated
    signals,     \* the list returned by _generate_signals
    oi,          \* index of the order _process_orders is looking at
    results,     \* the dict returned by _run_simulation
    stats,       \* the TradeStats of _calculate_stats
    result,      \* the BacktestResult
    error,       \* the exception that ended the run
    run,         \* 1: the first run, 2: the same run made once more
    first,       \* the BacktestResult of the first run
    seed,        \* the entropy uuid4 draws from in this run
    clock,       \* the wall clock datetime.utcnow reads
    indlog,      \* timestamp -> the indicator values computed at it
    suspended    \* the locals of a run_backtest call suspended at an await

vars == <<pc, config, strategy, portfolio, data, timestamps, ti, signals, oi,
          results, stats, result, error, run, first, seed, clock, indlog,
          suspended>>

Init ==
    /\ pc = "new"
    /\ config \in RawConfigs
    /\ strategy \in Strategies
    /\ portfolio = None
    /\ data = None
    /\ timestamps = <<>>
    /\ ti = 0
    /\ signals = <<>>
    /\ oi = 0
    /\ results = None
    /\ stats = None
    /\ result = None
    /\ error = None
    /\ run = 1
    /\ first = None
    /\ seed = 1
    /\ clock = 1
    /\ indlog = <<>>
    /\ suspended = None

\* BacktestConfig(...): the validators run at construction.
ConstructConfig ==
    /\ pc = "new"
    /\ IF BacktestConfigValid(config)
       THEN pc' = "Initialized" /\ error' = error
       ELSE pc' = "ConfigurationError" /\ error' = "ValueError"
    /\ UNCHANGED <<config, strategy, portfolio, data, timestamps, ti, signals,
                   oi, results, stats, result, run, first, seed, clock, indlog,
                   suspended>>

----------------------------------------------------------------------------
(* run_backtest: portfolio and data. *)

\* _initialize_portfolio
InitialPortfolio(cfg) ==
    [cash         |-> cfg.initial_capital,
     equity       |-> cfg.initial_capital,
     positions    |-> <<>>,
     orders       |-> <<>>,
     trades       |-> <<>>,
     equity_curve |-> << [timestamp       |-> StartDate,
                          equity          |-> cfg.initial_capital,
                          cash            |-> cfg.initial_capital,
                          positions_value |-> Zero] >>]

InitializePortfolio ==
    /\ pc = "Initialized"
    /\ portfolio' = InitialPortfolio(config)
    /\ pc' = "fetch"
    /\ UNCHANGED <<config, strategy, data, timestamps, ti, signals, oi,
                   results, stats, result, error, run, first, seed, clock, indlog,
                   suspended>>

\* The frames a data source may return for the configured symbols.
Frames == [SymbolSet -> [BarTimes -> {0, 2, 4}]]

DataSets == {d \in Frames : \A s \in SymbolSet : \A t \in BarTimes :
                               d[s][t] \in {0} \cup Closes[s]}

\* What the data source does for a symbol it has no bar of in the range: it
\* returns an empty frame, or it fails (DataUnavailable).
SourceOutcomes == {"empty", "raise"}

\* The configured symbols the data source has no bar of.
Missing(d) == {s \in SymbolSet : \A t \in BarTimes : d[s][t] = 0}

\* _get_historical_data: one frame per configured symbol.  The call of lines
\* 105-110 is in no try block: a failure of the data source for one symbol
\* leaves _get_historical_data and run_backtest (data keeps what the source
\* holds).
GetHistoricalData ==
    /\ pc = "fetch"
    /\ data' \in IF run = 1 THEN DataSets ELSE {data}
    /\ \E outcome \in SourceOutcomes :
          IF outcome = "raise" /\ Missing(data') # {} /\ run = 1
          THEN pc' = "Failed" /\ error' = "DataUnavailable"
          ELSE pc' = "Running" /\ error' = error
    /\ UNCHANGED <<config, strategy, portfolio, timestamps, ti, signals, oi,
                   results, stats, result, run, first, seed, clock, indlog,
                   suspended>>

HasBar(d, s, t) == s \in DOMAIN d /\ t \in DOMAIN d[s] /\ d[s][t] # 0

Close(d, s, t) == R(d[s][t])

\* sorted(...): the ascending sequence of a set of timestamps.
RECURSIVE Sorted(_)
Sorted(S) ==
    IF S = {} THEN <<>>
    ELSE LET m == CHOOSE x \in S : \A y \in S : x <= y
         IN  <<m>> \o Sorted(S \ {m})

RECURSIVE Reversed(_)
Reversed(s) == IF s = <<>> THEN <<>> ELSE Append(Reversed(Tail(s)), Head(s))

\* Line 127 sorting in descending order.
Timestamps_Descending(d) ==
    Reversed(Sorted({t \in BarTimes : \E s \in DOMAIN d : HasBar(d, s, t)}))

RECURSIVE FrameIndices(_, _)
FrameIndices(d, k) ==
    IF k > Len(Symbols) THEN <<>>
    ELSE Sorted({t \in BarTimes : HasBar(d, Symbols[k], t)})
         \o FrameIndices(d, k + 1)

\* Line 127 chaining the frames' indices instead of uniting them.
Timestamps_Chained(d) == FrameIndices(d, 1)

\* sorted(set().union(*[df.index for df in data.values()]))
Timestamps(d) ==
    Sorted({t \in BarTimes : \E s \in DOMAIN d : HasBar(d, s, t)})

\* The first line of _run_simulation: the timestamps to simulate.
RunSimulation ==
    /\ pc = "Running"
    /\ timestamps' = Timestamps(data)
    /\ IF Timestamps(data) = <<>>
       THEN pc' = "return" /\ ti' = ti
       ELSE pc' = "update" /\ ti' = 1
    /\ UNCHANGED <<config, strategy, portfolio, data, signals, oi, results,
                   stats, result, error, run, first, seed, clock, indlog,
                   suspended>>

Now == timestamps[ti]

----------------------------------------------------------------------------
(* _update_portfolio_state: mark to market, stop loss and take profit. *)

\* if config.stop_loss: / if config.take_profit:
Truthy(v) == v # Unset /\ v # Zero

\* The stop trigger of lines 208-215.
StopLossHit(cfg, position, current_price) ==
    /\ Truthy(cfg.stop_loss)
    /\ LET stop_price == IF position.type = "long"
                         THEN RMul(position.entry_price, RSub(One, cfg.stop_loss))
                         ELSE RMul(position.entry_price, RAdd(One, cfg.stop_loss))
       IN  \/ position.type = "long" /\ RLe(current_price, stop_price)
           \/ position.type = "short" /\ RLe(stop_price, current_price)

\* The take-profit trigger of lines 224-231.
TakeProfitHit(cfg, position, current_price) ==
    /\ Truthy(cfg.take_profit)
    /\ LET take_profit_price ==
               IF position.type = "long"
               THEN RMul(position.entry_price, RAdd(One, cfg.take_profit))
               ELSE RMul(position.entry_price, RSub(One, cfg.take_profit))
       IN  \/ position.type = "long" /\ RLe(take_profit_price, current_price)
           \/ position.type = "short" /\ RLe(current_price, take_profit_price)

\* Lines 188-203: the position marked at the bar's close.
Marked(position, current_price, t) ==
    [position EXCEPT
        !.current_price = current_price,
        !.current_timestamp = t,
        !.unrealized_pnl =
            IF position.type = "long"
            THEN RMul(RSub(current_price, position.entry_price), position.quantity)
            ELSE RMul(RSub(position.entry_price, current_price), position.quantity)]

\* The loop of lines 186-238 from position k on.  BacktestService defines no
\* _close_position: the call of line 216 or 232 raises AttributeError, which
\* ends the loop (raised) with the positions marked so far.
RECURSIVE MarkPositions(_, _, _, _, _, _)
MarkPositions(cfg, d, t, positions, k, positions_value) ==
    IF k > Len(positions)
    THEN [positions |-> positions, positions_value |-> positions_value,
          raised |-> FALSE]
    ELSE LET position == positions[k]
         IN  IF ~HasBar(d, position.symbol, t)
             THEN MarkPositions(cfg, d, t, positions, k + 1, positions_value)
             ELSE LET current_price == Close(d, position.symbol, t)
                      marked == [positions EXCEPT
                                    ![k] = Marked(position, current_price, t)]
                      value == RAdd(positions_value,
                                    RMul(position.quantity, current_price))
                  IN  IF \/ StopLossHit(cfg, position, current_price)
                         \/ TakeProfitHit(cfg, position, current_price)
                      THEN [positions |-> marked, positions_value |-> value,
                            raised |-> TRUE]
                      ELSE MarkPositions(cfg, d, t, marked, k + 1, value)

UpdatePortfolioState ==
    /\ pc = "update"
    /\ LET m == MarkPositions(config, data, Now, portfolio.positions, 1, Zero)
       IN  IF m.raised
           THEN /\ portfolio' = [portfolio EXCEPT !.positions = m.positions]
                /\ pc' = "Failed"
                /\ error' = "AttributeError"
           ELSE /\ portfolio' = [portfolio EXCEPT
                                    !.positions = m.positions,
                                    !.equity = RAdd(portfolio.cash, m.positions_value)]
                /\ pc' = "signals"
                /\ error' = error
    /\ UNCHANGED <<config, strategy, data, timestamps, ti, signals, oi,
                   results, stats, result, run, first, seed, clock, indlog,
                   suspended>>

----------------------------------------------------------------------------
(* _generate_signals and _check_condition. *)

\* The comparison operators of lines 306-315.
Comparisons == {">", "<", ">=", "<=", "=="}

\* indicator <operator> value for two numbers.
Compare(operator, indicator, value) ==
    CASE operator = ">"  -> indicator > value
      [] operator = "<"  -> indicator < value
      [] operator = ">=" -> indicator >= value
      [] operator = "<=" -> indicator <= value
      [] operator = "==" -> indicator = value

\* series[-k]
FromEnd(series, k) == series[Len(series) - k + 1]

\* indicators[name][-2] and [-1] can be read: the name is in the mapping and
\* its value is a series of two elements or more (otherwise KeyError,
\* TypeError or IndexError).
Indexable(indicators, name) ==
    /\ name \in DOMAIN indicators
    /\ IsSeries(indicators[name])
    /\ Len(indicators[name].series) >= 2

\* A missing indicator treated as the number 0, not as None.
check_condition_MissingIsZero(condition, indicators) ==
    /\ {"indicator", "operator", "value"} \subseteq DOMAIN condition
    /\ condition.operator \in Comparisons
    /\ LET indicator == IF condition.indicator \in DOMAIN indicators
                        THEN indicators[condition.indicator]
                        ELSE Scalar(0)
       IN  IsScalar(indicator)
           /\ Compare(condition.operator, indicator.scalar, condition.value)

\* _check_condition.  Every exception raised inside (a key the condition or
\* the mapping does not have, an index a series does not have, a comparison
\* the operands do not support) is caught at line 333 and gives False; a
\* comparison with not-a-number is False.
check_condition(condition, indicators) ==
    IF "indicator" \notin DOMAIN condition                \* KeyError, line 299
    THEN FALSE
    ELSE IF condition.indicator \notin DOMAIN indicators  \* None, line 300
    THEN FALSE
    ELSE IF \/ "operator" \notin DOMAIN condition        \* KeyError, line 303
            \/ "value" \notin DOMAIN condition           \* KeyError, line 304
    THEN FALSE
    ELSE LET indicator == indicators[condition.indicator]
             operator == condition.operator
             value == condition.value
         IN  IF operator \in Comparisons
             THEN /\ IsScalar(indicator)
                  /\ Compare(operator, indicator.scalar, value)
             ELSE IF operator \in {"cross_above", "cross_below"}
             THEN /\ {"indicator1", "indicator2"} \subseteq DOMAIN condition
                  /\ Indexable(indicators, condition.indicator1)
                  /\ Indexable(indicators, condition.indicator2)
                  /\ LET s1 == indicators[condition.indicator1].series
                         s2 == indicators[condition.indicator2].series
                     IN  IF operator = "cross_above"
                         THEN /\ FromEnd(s1, 2) <= FromEnd(s2, 2)
                              /\ FromEnd(s1, 1) > FromEnd(s2, 1)
                         ELSE /\ FromEnd(s1, 2) >= FromEnd(s2, 2)
                              /\ FromEnd(s1, 1) < FromEnd(s2, 1)
             ELSE FALSE                                    \* line 331

\* Lines 264-287 for one symbol: one signal per matching condition, the
\* entry conditions first.
RECURSIVE ConditionSignals(_, _, _, _, _, _)
ConditionSignals(conditions, k, type, symbol, t, bar) ==
    IF k > Len(conditions)
    THEN <<>>
    ELSE LET condition == conditions[k]
             rest == ConditionSignals(conditions, k + 1, type, symbol, t, bar)
             bullish == IF type = "ENTRY"
                        THEN condition.side = "buy"
                        ELSE condition.side # "buy"
         IN  IF check_condition(condition, bar.indicators)
             THEN << [symbol    |-> symbol,
                      timestamp |-> t,
                      type      |-> type,
                      direction |-> IF bullish THEN "bullish" ELSE "bearish",
                      price     |-> bar.close] >> \o rest
             ELSE rest

\* The loop of lines 251-287 from symbol k of data.items() on.
RECURSIVE SymbolSignals(_, _, _, _, _)
SymbolSignals(strat, d, t, indicators, k) ==
    IF k > Len(Symbols)
    THEN <<>>
    ELSE LET symbol == Symbols[k]
             rest == SymbolSignals(strat, d, t, indicators, k + 1)
         IN  IF ~HasBar(d, symbol, t)
             THEN rest
             ELSE LET bar == [close |-> Close(d, symbol, t),
                              indicators |-> indicators[symbol]]
                  IN  ConditionSignals(strat.entry_conditions, 1, "ENTRY",
                                       symbol, t, bar)
                      \o ConditionSignals(strat.exit_conditions, 1, "EXIT",
                                          symbol, t, bar)
                      \o rest

\* What calculate_indicator returns at timestamp t: a value of "sig" for
\* every symbol that has a bar.
IndicatorChoices(d, t) ==
    [{s \in SymbolSet : HasBar(d, s, t)} -> [sig : IndicatorValues]]

GenerateSignals ==
    /\ pc = "signals"
    /\ \E indicators \in IndicatorChoices(data, Now) :
          \* the evaluator is a pure function of the data: a second run over
          \* the same data computes the same values
          /\ Now \in DOMAIN indlog => indicators = indlog[Now]
          /\ indlog' = IF Now \in DOMAIN indlog THEN indlog
                        ELSE indlog @@ (Now :> indicators)
          /\ signals' = SymbolSignals(strategy, data, Now, indicators, 1)
    /\ pc' = "process_signals"
    /\ UNCHANGED <<config, strategy, portfolio, data, timestamps, ti, oi,
                   results, stats, result, error, run, first, seed, clock,
                   suspended>>


----------------------------------------------------------------------------
(* _process_signals: signals to orders. *)

\* uuid4(): the n-th identifier drawn from the process's entropy.
Uuid4(entropy, n) == <<entropy, n>>

\* portfolio['positions'].get(symbol): the index of the symbol's position in
\* the mapping (kept in insertion order), 0 when it has none.
PositionIndex(positions, symbol) ==
    IF \E k \in DOMAIN positions : positions[k].symbol = symbol
    THEN CHOOSE k \in DOMAIN positions : positions[k].symbol = symbol
    ELSE 0

\* BacktestOrder.validate_quantity
validate_quantity(v) == ~RLe(v, Zero)

\* BacktestOrder(...) with the defaults of the model.
BacktestOrder(id, symbol, side, quantity, t) ==
    [id             |-> id,
     symbol         |-> symbol,
     type           |-> "market",
     side           |-> side,
     quantity       |-> quantity,
     timestamp      |-> t,
     status         |-> "pending",
     fill_price     |-> Unset,
     fill_timestamp |-> NoTime,
     commission     |-> Zero,
     slippage       |-> Zero]

\* The quantity of an entry order, lines 360-361.
EntryQuantity(cfg, equity, price) ==
    RDiv(RMul(equity, cfg.position_size), price)

\* The side of an entry order, line 367.
EntrySide(direction) == IF direction = "bullish" THEN "buy" ELSE "sell"

\* The side of an exit order, line 378.
ExitSide(position) == IF position.type = "long" THEN "sell" ELSE "buy"

\* Line 351 left out: only exit signals without a position are dropped.
Dropped_ExitOnly(signal, hasPosition) ==
    ~hasPosition /\ signal.type = "EXIT"

\* Whether lines 351 and 355 drop the signal.
Dropped(signal, hasPosition) ==
    \/ hasPosition /\ signal.type = "ENTRY"
    \/ ~hasPosition /\ signal.type = "EXIT"

\* The loop of lines 346-382 from signal k on; raised when BacktestOrder
\* refuses a quantity that is not positive.
RECURSIVE SignalOrders(_, _, _, _, _, _, _)
SignalOrders(cfg, entropy, pf, sigs, k, t, orders) ==
    IF k > Len(sigs)
    THEN [orders |-> orders, raised |-> FALSE]
    ELSE LET signal == sigs[k]
             p == PositionIndex(pf.positions, signal.symbol)
             id == Uuid4(entropy, Len(orders) + 1)
         IN  IF Dropped(signal, p # 0)
             THEN SignalOrders(cfg, entropy, pf, sigs, k + 1, t, orders)
             ELSE IF signal.type = "ENTRY"
             THEN LET quantity == EntryQuantity(cfg, pf.equity, signal.price)
                  IN  IF ~validate_quantity(quantity)
                      THEN [orders |-> orders, raised |-> TRUE]
                      ELSE SignalOrders(cfg, entropy, pf, sigs, k + 1, t,
                               Append(orders,
                                      BacktestOrder(id, signal.symbol,
                                                    EntrySide(signal.direction),
                                                    quantity, t)))
             ELSE LET position == pf.positions[p]
                  IN  IF ~validate_quantity(position.quantity)
                      THEN [orders |-> orders, raised |-> TRUE]
                      ELSE SignalOrders(cfg, entropy, pf, sigs, k + 1, t,
                               Append(orders,
                                      BacktestOrder(id, signal.symbol,
                                                    ExitSide(position),
                                                    position.quantity, t)))

\* The loop of line 392 left out: no order is looked at.
NextPending_None(orders, k) == Len(orders) + 1

\* Lines 393-394 left out: the loop takes every order, whatever its status.
NextPending_Any(orders, k) == k + 1

\* The first order after index k that is still pending (the loop of line 392
\* passes over the others), Len + 1 when there is none.
NextPending(orders, k) ==
    IF \E j \in DOMAIN orders : j > k /\ orders[j].status = "pending"
    THEN CHOOSE j \in DOMAIN orders :
            /\ j > k /\ orders[j].status = "pending"
            /\ \A h \in DOMAIN orders :
                  h > k /\ orders[h].status = "pending" => j <= h
    ELSE Len(orders) + 1

ProcessSignals ==
    /\ pc = "process_signals"
    /\ LET r == SignalOrders(config, seed, portfolio, signals, 1, Now,
                             portfolio.orders)
       IN  /\ portfolio' = [portfolio EXCEPT !.orders = r.orders]
           /\ IF r.raised
              THEN pc' = "Failed" /\ error' = "ValidationError" /\ oi' = oi
              ELSE /\ error' = error
                   /\ oi' = NextPending(r.orders, 0)
                   /\ pc' = IF NextPending(r.orders, 0) > Len(r.orders)
                            THEN "equity_curve" ELSE "process_orders"
    /\ UNCHANGED <<config, strategy, data, timestamps, ti, signals, results,
                   stats, result, run, first, seed, clock, indlog, suspended>>


----------------------------------------------------------------------------
(* _process_orders: one pass of the loop of line 392 per pending order. *)

\* Lines 402-405: the close adjusted by slippage.
FillPrice(cfg, side, current_price) ==
    RMul(current_price,
         IF side = "buy" THEN RAdd(One, cfg.slippage_rate)
                         ELSE RSub(One, cfg.slippage_rate))

\* Line 408
Commission(cfg, fill_price, quantity) ==
    RMul(RMul(fill_price, quantity), cfg.commission_rate)

\* Lines 411-415: the order as written before the portfolio is touched.
Filled(cfg, order, current_price, t) ==
    LET fill_price == FillPrice(cfg, order.side, current_price)
    IN  [order EXCEPT
            !.status = "filled",
            !.fill_price = fill_price,
            !.fill_timestamp = t,
            !.commission = Commission(cfg, fill_price, order.quantity),
            !.slippage = RMul(RAbs(RSub(fill_price, current_price)),
                              order.quantity)]

\* Line 419
Cost(order) == RAdd(RMul(order.fill_price, order.quantity), order.commission)

\* Line 420 without the comparison: every buy is taken as affordable.
InsufficientCash_Never(cost, cash) == FALSE

\* Line 420: the buy is refused.
InsufficientCash(cost, cash) == RLt(cash, cost)

\* Line 451 without the commission: the sale is credited gross.
Proceeds_Gross(order) == RMul(order.fill_price, order.quantity)

\* Line 451
Proceeds(order) == RSub(RMul(order.fill_price, order.quantity), order.commission)

\* Lines 428-438
NewPosition(order, t) ==
    [symbol            |-> order.symbol,
     type              |-> "long",
     quantity          |-> order.quantity,
     entry_price       |-> order.fill_price,
     entry_timestamp   |-> t,
     current_price     |-> order.fill_price,
     current_timestamp |-> t,
     unrealized_pnl    |-> Zero,
     realized_pnl      |-> Zero,
     commission_paid   |-> order.commission]

\* Lines 440-448: the buy merged into the open position.
MergedPosition(position, order) ==
    LET new_quantity == RAdd(position.quantity, order.quantity)
    IN  [position EXCEPT
            !.entry_price =
                RDiv(RAdd(RMul(position.entry_price, position.quantity),
                          RMul(order.fill_price, order.quantity)),
                     new_quantity),
            !.quantity = new_quantity,
            !.commission_paid = RAdd(position.commission_paid, order.commission)]

\* The pnl with the difference taken the other way round.
RealizedPnl_Inverted(position, order) ==
    RMul(RSub(position.entry_price, order.fill_price), order.quantity)

\* Lines 455-459
RealizedPnl(position, order) ==
    IF position.type = "long"
    THEN RMul(RSub(order.fill_price, position.entry_price), order.quantity)
    ELSE RMul(RSub(position.entry_price, order.fill_price), order.quantity)

\* Lines 464-474
Trade(position, order, t) ==
    [symbol          |-> order.symbol,
     entry_price     |-> position.entry_price,
     entry_timestamp |-> position.entry_timestamp,
     exit_price      |-> order.fill_price,
     exit_timestamp  |-> t,
     quantity        |-> order.quantity,
     pnl             |-> RealizedPnl(position, order),
     commission      |-> RAdd(position.commission_paid, order.commission),
     type            |-> position.type]

\* Lines 478-480
ReducedPosition(position, order) ==
    [position EXCEPT
        !.quantity = RSub(position.quantity, order.quantity),
        !.realized_pnl = RAdd(position.realized_pnl, RealizedPnl(position, order)),
        !.commission_paid = RAdd(position.commission_paid, order.commission)]

\* Line 475 left out: the closed position stays in the mapping.
Without_Keep(positions, p) == positions

\* del portfolio['positions'][symbol]
Without(positions, p) ==
    [k \in 1 .. Len(positions) - 1 |->
        IF k < p THEN positions[k] ELSE positions[k + 1]]

\* Line 424 moved before the check of line 420: the rejected buy is charged.
AfterReject_Charged(pf, order, k) ==
    [pf EXCEPT !.orders[k] = [order EXCEPT !.status = "rejected"],
               !.cash = RSub(pf.cash, Cost(order))]

\* Lines 420-422: the buy is rejected; the order keeps what lines 412-415
\* wrote and nothing else of the portfolio changes.
AfterReject(pf, order, k) ==
    [pf EXCEPT !.orders[k] = [order EXCEPT !.status = "rejected"]]

\* Lines 418-448: the portfolio after a buy that is affordable.
AfterBuy(pf, order, k, t) ==
    LET p == PositionIndex(pf.positions, order.symbol)
    IN  [pf EXCEPT
            !.orders[k] = order,
            !.cash = RSub(pf.cash, Cost(order)),
            !.positions = IF p = 0
                          THEN Append(pf.positions, NewPosition(order, t))
                          ELSE [pf.positions EXCEPT
                                   ![p] = MergedPosition(pf.positions[p], order)]]

\* Lines 450-480: the portfolio after a sell against the open position p.
AfterSell(pf, order, k, p, t) ==
    LET position == pf.positions[p]
    IN  IF order.quantity = position.quantity
        THEN [pf EXCEPT
                !.orders[k] = order,
                !.cash = RAdd(pf.cash, Proceeds(order)),
                !.trades = Append(pf.trades, Trade(position, order, t)),
                !.positions = Without(pf.positions, p)]
        ELSE [pf EXCEPT
                !.orders[k] = order,
                !.cash = RAdd(pf.cash, Proceeds(order)),
                !.positions[p] = ReducedPosition(position, order)]

\* `break` in the place of `continue`: the loop ends after the order it has
\* looked at.
Advance_Break(pf, k) ==
    /\ oi' = Len(pf.orders) + 1
    /\ pc' = "equity_curve"
    /\ error' = error

\* The loop moves on from order k: to the next pending order, or out.
Advance(pf, k) ==
    /\ oi' = NextPending(pf.orders, k)
    /\ pc' = IF NextPending(pf.orders, k) > Len(pf.orders)
             THEN "equity_curve" ELSE "process_orders"
    /\ error' = error

ProcessOrder ==
    /\ pc = "process_orders"
    /\ LET order == portfolio.orders[oi]
       IN  IF ~HasBar(data, order.symbol, Now)
           THEN \* line 396: left pending
                /\ portfolio' = portfolio
                /\ Advance(portfolio, oi)
           ELSE LET filled == Filled(config, order,
                                     Close(data, order.symbol, Now), Now)
                    p == PositionIndex(portfolio.positions, order.symbol)
                IN  IF order.side = "buy"
                    THEN IF InsufficientCash(Cost(filled), portfolio.cash)
                         THEN /\ portfolio' = AfterReject(portfolio, filled, oi)
                              /\ Advance(portfolio', oi)
                         ELSE /\ portfolio' = AfterBuy(portfolio, filled, oi, Now)
                              /\ Advance(portfolio', oi)
                    ELSE IF p = 0
                         THEN \* line 454 raises KeyError after line 452
                              /\ portfolio' =
                                    [portfolio EXCEPT
                                        !.orders[oi] = filled,
                                        !.cash = RAdd(portfolio.cash,
                                                      Proceeds(filled))]
                              /\ pc' = "Failed"
                              /\ error' = "KeyError"
                              /\ oi' = oi
                         ELSE /\ portfolio' =
                                    AfterSell(portfolio, filled, oi, p, Now)
                              /\ Advance(portfolio', oi)
    /\ UNCHANGED <<config, strategy, data, timestamps, ti, signals, results,
                   stats, result, run, first, seed, clock, indlog, suspended>>

----------------------------------------------------------------------------
(* _update_equity_curve and the end of the loop of line 129. *)

\* Lines 488-491
RECURSIVE PositionsValue(_)
PositionsValue(positions) ==
    IF positions = <<>> THEN Zero
    ELSE RAdd(RMul(Head(positions).quantity, Head(positions).current_price),
              PositionsValue(Tail(positions)))

\* Lines 493-498
EquityPoint(pf, t) ==
    [timestamp       |-> t,
     equity          |-> pf.equity,
     cash            |-> pf.cash,
     positions_value |-> PositionsValue(pf.positions)]

UpdateEquityCurve ==
    /\ pc = "equity_curve"
    /\ portfolio' = [portfolio EXCEPT
                        !.equity_curve = Append(@, EquityPoint(portfolio, Now))]
    /\ IF ti < Len(timestamps)
       THEN ti' = ti + 1 /\ pc' = "update"
       ELSE ti' = ti /\ pc' = "return"
    /\ UNCHANGED <<config, strategy, data, timestamps, signals, oi, results,
                   stats, result, error, run, first, seed, clock, indlog,
                   suspended>>


----------------------------------------------------------------------------
(* The return of _run_simulation, _calculate_metrics, _calculate_stats and
   the BacktestResult. *)

RECURSIVE CountWins(_)
CountWins(trades) ==
    IF trades = <<>> THEN 0
    ELSE (IF RLt(Zero, Head(trades).pnl) THEN 1 ELSE 0) + CountWins(Tail(trades))

RMax(a, b) == IF RLt(a, b) THEN b ELSE a

\* max((cummax(equity) - equity) / cummax(equity)) over the curve from point k
\* on, peak being the running maximum before it.
RECURSIVE MaxDrawdown(_, _, _)
MaxDrawdown(curve, k, peak) ==
    IF k > Len(curve) THEN Zero
    ELSE LET top == RMax(peak, curve[k].equity)
         IN  RMax(RDiv(RSub(top, curve[k].equity), top),
                  MaxDrawdown(curve, k + 1, top))

\* _calculate_metrics: no metrics without trades.  The annualized return and
\* the Sharpe and Sortino ratios (powers and square roots of floats) are not
\* part of the model.
calculate_metrics(pf) ==
    IF pf.trades = <<>>
    THEN <<>>
    ELSE [total_return |->
              RSub(RDiv(pf.equity_curve[Len(pf.equity_curve)].equity,
                        pf.equity_curve[1].equity), One),
          max_drawdown |->
              MaxDrawdown(pf.equity_curve, 1, pf.equity_curve[1].equity),
          win_rate |-> Norm(CountWins(pf.trades), Len(pf.trades))]

\* Lines 168-174
SimulationReturn ==
    /\ pc = "return"
    /\ results' = [equity_curve |-> portfolio.equity_curve,
                   trades       |-> portfolio.trades,
                   positions    |-> portfolio.positions,
                   orders       |-> portfolio.orders,
                   metrics      |-> calculate_metrics(portfolio)]
    /\ pc' = "stats"
    /\ UNCHANGED <<config, strategy, portfolio, data, timestamps, ti, signals,
                   oi, stats, result, error, run, first, seed, clock, indlog,
                   suspended>>

\* A TradeStats whose profit factor is not at its default.
EmptyTradeStats_Unit ==
    [total_trades     |-> 0,
     winning_trades   |-> 0,
     losing_trades    |-> 0,
     win_rate         |-> Zero,
     profit_factor    |-> One,
     total_pnl        |-> Zero,
     total_commission |-> Zero,
     total_slippage   |-> Zero]

\* TradeStats(): every field at its default.
EmptyTradeStats ==
    [total_trades     |-> 0,
     winning_trades   |-> 0,
     losing_trades    |-> 0,
     win_rate         |-> Zero,
     profit_factor    |-> Zero,
     total_pnl        |-> Zero,
     total_commission |-> Zero,
     total_slippage   |-> Zero]

\* Lines 569-572 read order.slippage of the entries of results['orders'],
\* which line 172 made dicts: the first entry raises AttributeError.
StatsRaise(res) == res.trades # <<>> /\ res.orders # <<>>

CalculateStats ==
    /\ pc = "stats"
    /\ IF results.trades = <<>>
       THEN stats' = EmptyTradeStats /\ pc' = "result" /\ error' = error
       ELSE /\ StatsRaise(results)
            /\ stats' = stats
            /\ pc' = "Failed"
            /\ error' = "AttributeError"
    /\ UNCHANGED <<config, strategy, portfolio, data, timestamps, ti, signals,
                   oi, results, result, run, first, seed, clock, indlog,
                   suspended>>

\* BacktestResult(...): id and created_at come from their default factories.
BacktestResult(cfg, st, res, id, now) ==
    [id           |-> id,
     config       |-> cfg,
     stats        |-> st,
     equity_curve |-> res.equity_curve,
     trades       |-> res.trades,
     positions    |-> res.positions,
     orders       |-> res.orders,
     metrics      |-> res.metrics,
     created_at   |-> now]

CreateResult ==
    /\ pc = "result"
    /\ result' = BacktestResult(config, stats, results,
                                Uuid4(seed, Len(results.orders) + 1), clock)
    /\ pc' = "Completed"
    /\ UNCHANGED <<config, strategy, portfolio, data, timestamps, ti, signals,
                   oi, results, stats, error, run, first, seed, clock, indlog,
                   suspended>>

\* The caller runs the same strategy and config over the same data once
\* more: a new portfolio, new entropy, and a clock that has not gone back.
RunAgain ==
    /\ pc = "Completed"
    /\ run = 1
    /\ run' = 2
    /\ first' = result
    /\ seed' \in Seeds
    /\ clock' \in {clock, clock + 1}
    /\ pc' = "Initialized"
    /\ portfolio' = None
    /\ timestamps' = <<>>
    /\ ti' = 0
    /\ signals' = <<>>
    /\ oi' = 0
    /\ results' = None
    /\ stats' = None
    /\ result' = None
    /\ UNCHANGED <<config, strategy, data, error, indlog, suspended>>

Next ==
    \/ ConstructConfig
    \/ InitializePortfolio
    \/ GetHistoricalData
    \/ RunSimulation
    \/ UpdatePortfolioState
    \/ GenerateSignals
    \/ ProcessSignals
    \/ ProcessOrder
    \/ UpdateEquityCurve
    \/ SimulationReturn
    \/ CalculateStats
    \/ CreateResult

Spec == Init /\ [][Next]_vars

\* Two runs in a row of one strategy with the same config over the same data.
InitTwice ==
    /\ Init
    /\ Len(strategy.entry_conditions) = 1
    /\ Len(strategy.exit_conditions) = 1
    /\ config.stop_loss = Unset

NextTwice == Next \/ RunAgain

SpecTwice == InitTwice /\ [][NextTwice]_vars

\* Configurations at the edge of what the validators accept: as many
\* positions as one, and a commission rate above 1. Both pass
\* validate_positive and validate_position_size.
LimitConfigs ==
    { [Kwargs(R(64), <<1, 4>>, <<1, 4>>, Unset, Unset)
          EXCEPT !.max_positions = 1],
      [Kwargs(R(64), <<1, 4>>, <<1, 4>>, Unset, Unset)
          EXCEPT !.commission_rate = R(2)] }

\* One entry and one exit condition.
LimitStrategy ==
    [entry_conditions |-> <<Cond("==", 1, "buy")>>,
     exit_conditions  |-> <<Cond("==", 2, "sell")>>]

\* A run of that strategy under one of these configurations.
InitLimits ==
    /\ pc = "new"
    /\ config \in LimitConfigs
    /\ strategy = LimitStrategy
    /\ portfolio = None
    /\ data = None
    /\ timestamps = <<>>
    /\ ti = 0
    /\ signals = <<>>
    /\ oi = 0
    /\ results = None
    /\ stats = None
    /\ result = None
    /\ error = None
    /\ run = 1
    /\ first = None
    /\ seed = 1
    /\ clock = 1
    /\ indlog = <<>>
    /\ suspended = None

SpecLimits == InitLimits /\ [][Next]_vars

----------------------------------------------------------------------------
(* Two calls of run_backtest on the one BacktestService, interleaved by the
   event loop at their awaits. *)

\* The local variables of a run_backtest call and of the methods it is in.
Locals ==
    [pc         |-> pc,
     config     |-> config,
     strategy   |-> strategy,
     portfolio  |-> portfolio,
     data       |-> data,
     timestamps |-> timestamps,
     ti         |-> ti,
     signals    |-> signals,
     oi         |-> oi,
     results    |-> results,
     stats      |-> stats,
     result     |-> result,
     error      |-> error,
     seed       |-> seed,
     indlog     |-> indlog]

\* Where a call waits for something outside the process: the cache and the
\* data source in _get_historical_data, the evaluator in _generate_signals.
AwaitPoints == {"fetch", "signals"}

\* A call that has returned or raised.
Returned == {"Completed", "Failed", "ConfigurationError"}

\* The portfolio kept as an attribute of the service: the call that is
\* resumed finds the one the other call left.
ResumedPortfolio_OnService(locals, current) == current

\* portfolio is a local of run_backtest, passed to the methods as an
\* argument: a call that is resumed has its own.
ResumedPortfolio(locals, current) == locals.portfolio

\* The event loop suspends the call that is running at an await, or finds
\* that it has ended, and resumes the other call.
Switch ==
    /\ pc \in AwaitPoints \cup Returned
    /\ suspended.pc \notin Returned
    /\ suspended' = Locals
    /\ pc' = suspended.pc
    /\ config' = suspended.config
    /\ strategy' = suspended.strategy
    /\ portfolio' = ResumedPortfolio(suspended, portfolio)
    /\ data' = suspended.data
    /\ timestamps' = suspended.timestamps
    /\ ti' = suspended.ti
    /\ signals' = suspended.signals
    /\ oi' = suspended.oi
    /\ results' = suspended.results
    /\ stats' = suspended.stats
    /\ result' = suspended.result
    /\ error' = suspended.error
    /\ seed' = suspended.seed
    /\ indlog' = suspended.indlog
    /\ UNCHANGED <<run, first, clock>>

\* The bars the data source holds for the range of the two calls: the first
\* symbol has a bar at every timestamp, the second has none.
PairData ==
    [s \in SymbolSet |->
        [t \in BarTimes |-> IF s = Symbols[1] THEN 2 ELSE 0]]

\* Two calls are made, with a config each, for data the source has served
\* before; the second has not started.
InitPair ==
    /\ pc = "new"
    /\ config = Kwargs(R(64), <<1, 4>>, <<1, 2>>, Unset, Unset)
    /\ strategy = LimitStrategy
    /\ portfolio = None
    /\ data = PairData
    /\ timestamps = <<>>
    /\ ti = 0
    /\ signals = <<>>
    /\ oi = 0
    /\ results = None
    /\ stats = None
    /\ result = None
    /\ error = None
    /\ run = 2
    /\ first = None
    /\ seed = 1
    /\ clock = 1
    /\ indlog = <<>>
    /\ suspended =
          [Locals EXCEPT
              !.config = Kwargs(R(64), <<1, 4>>, <<1, 4>>, Unset, Unset),
              !.seed = 2]

NextPair == Next \/ Switch

SpecPair == InitPair /\ [][NextPair]_vars

----------------------------------------------------------------------------
(* Properties. *)

\* The run holds a portfolio (from _initialize_portfolio on).
Live == pc \notin {"new", "Initialized", "ConfigurationError"}

LiveNext == pc' \notin {"new", "Initialized", "ConfigurationError"}

Orders == IF Live THEN portfolio.orders ELSE <<>>
Positions == IF Live THEN portfolio.positions ELSE <<>>
Trades == IF Live THEN portfolio.trades ELSE <<>>
Curve == IF Live THEN portfolio.equity_curve ELSE <<>>

\* The order the loop of _process_orders is looking at gets this status in
\* the step.
Becomes(status) ==
    /\ pc = "process_orders"
    /\ portfolio.orders[oi].status = "pending"
    /\ portfolio'.orders[oi].status = status

\* C1: every equity-curve point appended for a simulated timestamp has
\* equity = cash + positions_value, the value of the positions open after
\* that timestamp's risk checks and order processing.
C1_EquityIsCashPlusPositions ==
    \A k \in DOMAIN Curve :
        k > 1 => Curve[k].equity = RAdd(Curve[k].cash, Curve[k].positions_value)

\* C2: a buy order is filled only when fill_price * quantity + commission is
\* at most the cash balance immediately before the fill.
C2_FilledBuyAffordable ==
    [][(Becomes("filled") /\ portfolio.orders[oi].side = "buy")
        => LET o == portfolio'.orders[oi]
           IN  RLe(RAdd(RMul(o.fill_price, o.quantity), o.commission),
                   portfolio.cash)]_vars

C2_Witness ==
    \E k \in DOMAIN Orders :
        /\ Orders[k].side = "buy" /\ Orders[k].status = "filled"
        /\ \E j \in DOMAIN Orders : Orders[j].status = "rejected"

C3_PositionsPositive ==
    \A k \in DOMAIN Positions : RLt(Zero, Positions[k].quantity)

C3_FullSellCloses ==
    (/\ Becomes("filled")
     /\ portfolio.orders[oi].side = "sell"
     /\ LET p == PositionIndex(portfolio.positions, portfolio.orders[oi].symbol)
        IN  p # 0 /\ portfolio.positions[p].quantity = portfolio.orders[oi].quantity)
    => /\ PositionIndex(portfolio'.positions, portfolio.orders[oi].symbol) = 0
       /\ Len(portfolio'.trades) = Len(portfolio.trades) + 1
       /\ SubSeq(portfolio'.trades, 1, Len(portfolio.trades)) = portfolio.trades

\* C3: every open position has quantity > 0, and a sell order whose quantity
\* equals the open quantity removes the symbol from the open positions and
\* appends exactly one Trade.
C3_PositionQuantity == []C3_PositionsPositive /\ [][C3_FullSellCloses]_vars

C3_Witness ==
    /\ pc = "equity_curve"
    /\ Len(Trades) = 1
    /\ PositionIndex(Positions, Trades[1].symbol) = 0
    /\ Positions # <<>>

C4_StatusStep ==
    /\ Live /\ LiveNext
    => /\ Len(portfolio'.orders) >= Len(portfolio.orders)
       /\ \A k \in DOMAIN portfolio'.orders :
             IF k > Len(portfolio.orders)
             THEN portfolio'.orders[k].status = "pending"
             ELSE LET old == portfolio.orders[k]
                      new == portfolio'.orders[k]
                  IN  \/ new.status = old.status
                      \/ /\ old.status = "pending"
                         /\ new.status \in {"filled", "rejected"}
                         /\ pc = "process_orders" /\ oi = k
                         /\ old.timestamp = Now
                         /\ new.status = "rejected" <=>
                               /\ old.side = "buy"
                               /\ RLt(portfolio.cash,
                                      RAdd(RMul(new.fill_price, new.quantity),
                                           new.commission))

C4_NonePendingAtAppend ==
    pc = "equity_curve" => \A k \in DOMAIN Orders : Orders[k].status # "pending"

\* C4: an order is created pending; its status changes only in the order
\* processing of the timestamp it was created at, from pending to filled or
\* rejected, rejected exactly when it is a buy whose cost exceeds the cash;
\* a terminal status never changes; when the timestamp's equity point is
\* appended no order is pending.
C4_OrderLifecycle == []C4_NonePendingAtAppend /\ [][C4_StatusStep]_vars

C4_Witness ==
    /\ pc = "update" /\ ti = 2
    /\ \E k \in DOMAIN Orders : Orders[k].status = "filled"
    /\ \E k \in DOMAIN Orders : Orders[k].status = "rejected"

C5_Unaffordable ==
    /\ pc = "process_orders"
    /\ portfolio.orders[oi].side = "buy"
    /\ HasBar(data, portfolio.orders[oi].symbol, Now)
    /\ LET price == RMul(Close(data, portfolio.orders[oi].symbol, Now),
                         RAdd(One, config.slippage_rate))
           gross == RMul(price, portfolio.orders[oi].quantity)
       IN  RLt(portfolio.cash,
               RAdd(gross, RMul(gross, config.commission_rate)))

\* C5: a buy order whose fill_price * quantity + commission exceeds the cash
\* is rejected with no partial fill: cash, open positions and trades are
\* unchanged and the run goes on to the next order or to the equity point.
C5_RejectedBuy ==
    [][C5_Unaffordable
        => /\ portfolio'.orders[oi].status = "rejected"
           /\ portfolio'.cash = portfolio.cash
           /\ portfolio'.positions = portfolio.positions
           /\ portfolio'.trades = portfolio.trades
           /\ pc' \in {"process_orders", "equity_curve"}
           /\ pc' = "process_orders" => oi' > oi]_vars

C5_Witness ==
    /\ pc = "signals" /\ ti = 2
    /\ \E k \in DOMAIN Orders :
          Orders[k].status = "rejected" /\ Orders[k].timestamp = timestamps[1]

\* C6: a run with a valid configuration and data for at least one symbol
\* never ends in Failed, whatever signals the strategy emits (a failure of
\* the data source itself is the subject of C11).
C6_ValidRunCompletes ==
    pc = "Failed" => (Timestamps(data) = <<>> \/ error = "DataUnavailable")

BarTimestamps == {t \in BarTimes : \E s \in SymbolSet : data[s][t] # 0}

C8_OnePointEach ==
    pc = "Completed" =>
        /\ Len(result.equity_curve) = 1 + Cardinality(BarTimestamps)
        /\ \A t \in BarTimestamps :
              Cardinality({k \in DOMAIN result.equity_curve :
                              k > 1 /\ result.equity_curve[k].timestamp = t}) = 1

C8_AppendOnly ==
    Live /\ LiveNext =>
        /\ Len(portfolio'.equity_curve) >= Len(portfolio.equity_curve)
        /\ SubSeq(portfolio'.equity_curve, 1, Len(portfolio.equity_curve))
              = portfolio.equity_curve

\* C8: after a completed run the equity curve has one point per distinct
\* timestamp of the bars plus the initial point, and no point changes once
\* appended.
C8_CurvePoints == []C8_OnePointEach /\ [][C8_AppendOnly]_vars

C8_Witness ==
    /\ pc = "Completed"
    /\ Cardinality(BarTimestamps) = 2
    /\ result.orders # <<>>

\* C9: two runs with the same config, the same strategy and the same data
\* return identical BacktestResult values.
C9_Deterministic ==
    (run = 2 /\ pc = "Completed") => result = first

\* C10: with stop_loss configured, the risk check of a timestamp whose bar
\* closes at or below entry_price * (1 - stop_loss) leaves the long position
\* closed, with one Trade recorded for it at that close.
C10_StopLossCloses ==
    [][pc = "update"
        => \A k \in DOMAIN portfolio.positions :
              LET position == portfolio.positions[k]
              IN  (/\ config.stop_loss # Unset
                   /\ position.type = "long"
                   /\ HasBar(data, position.symbol, Now)
                   /\ RLe(Close(data, position.symbol, Now),
                          RMul(position.entry_price,
                               RSub(One, config.stop_loss))))
                  => /\ PositionIndex(portfolio'.positions, position.symbol) = 0
                     /\ Len(portfolio'.trades) > Len(portfolio.trades)
                     /\ \E j \in DOMAIN portfolio'.trades :
                           /\ j > Len(portfolio.trades)
                           /\ portfolio'.trades[j].symbol = position.symbol
                           /\ portfolio'.trades[j].exit_price =
                                 Close(data, position.symbol, Now)]_vars

\* The configured symbols that have at least one bar.
DataBearing == {s \in SymbolSet : \E t \in BarTimes : data[s][t] # 0}

\* The data has been asked for.
Fetched == Live /\ pc # "fetch"

\* C11: a run in which only some of the configured symbols have historical
\* data does not end in Failed, and every order, position and trade belongs
\* to a symbol that has data.
C11_PartialDataCompletes ==
    (Fetched /\ DataBearing # {} /\ DataBearing # SymbolSet)
    => /\ pc # "Failed"
       /\ \A k \in DOMAIN Orders : Orders[k].symbol \in DataBearing
       /\ \A k \in DOMAIN Positions : Positions[k].symbol \in DataBearing
       /\ \A k \in DOMAIN Trades : Trades[k].symbol \in DataBearing

C13_InvalidConfigRejected ==
    (\/ RLe(config.position_size, Zero)
     \/ RLt(One, config.position_size)
     \/ RLe(config.initial_capital, Zero)
     \/ RLe(config.commission_rate, Zero)
     \/ RLe(config.slippage_rate, Zero))
    => /\ pc \in {"new", "ConfigurationError"}
       /\ pc = "ConfigurationError" => error = "ValueError"
       /\ portfolio = None /\ data = None /\ result = None

C13_Witness ==
    /\ pc = "ConfigurationError"
    /\ config.position_size = <<3, 2>>

\* C14: with commission_rate = 0 and slippage_rate = 0 the configuration is
\* accepted and the run does not fail; every trade is entered and left at
\* the bars' closes with pnl = quantity * (exit - entry), and the first order
\* of the run has quantity initial_capital * position_size / close.
C14_ZeroCostRoundTrip ==
    (config.commission_rate = Zero /\ config.slippage_rate = Zero)
    => /\ pc \notin {"ConfigurationError", "Failed"}
       /\ \A k \in DOMAIN Trades :
             LET t  == Trades[k]
                 p1 == Close(data, t.symbol, t.entry_timestamp)
                 p2 == Close(data, t.symbol, t.exit_timestamp)
             IN  /\ t.entry_price = p1
                 /\ t.exit_price = p2
                 /\ t.pnl = RMul(t.quantity, RSub(p2, p1))
       /\ Orders # <<>> =>
             Orders[1].quantity =
                RDiv(RMul(config.initial_capital, config.position_size),
                     Close(data, Orders[1].symbol, Orders[1].timestamp))
       /\ pc = "Completed" => Len(result.trades) <= 1

----------------------------------------------------------------------------
(* The profit factor of _calculate_stats, evaluated on a list of closed
   trades.  The pnl of a trade is a numpy float: a division by zero gives
   inf or nan, it does not raise. *)

\* Largest absolute pnl and longest trade list the evaluation is given.
MaxPnl == 2
MaxTrades == 3

\* A float result: a finite value, inf or nan.
Finite(r) == [kind |-> "finite", value |-> r]
Inf == [kind |-> "inf", value |-> Zero]
NaN == [kind |-> "nan", value |-> Zero]

RECURSIVE Pnls(_)
Pnls(trades) ==
    IF trades = <<>> THEN <<>> ELSE <<Head(trades).pnl>> \o Pnls(Tail(trades))

IsWinning(t) == RLt(Zero, t.pnl)
IsLosing(t) == RLe(t.pnl, Zero)

\* Lines 544-545 and 559-563.
profit_factor(trades) ==
    LET winning_trades == SelectSeq(trades, IsWinning)
        losing_trades  == SelectSeq(trades, IsLosing)
        wins   == RSum(Pnls(winning_trades))
        losses == RAbs(RSum(Pnls(losing_trades)))
    IN  IF losing_trades = <<>>
        THEN Inf
        ELSE IF losses = Zero
             THEN (IF wins = Zero THEN NaN ELSE Inf)
             ELSE Finite(RDiv(wins, losses))

\* The trade lists handed to the evaluation.
TradeLists ==
    UNION {[1 .. n -> [pnl : {R(v) : v \in -MaxPnl .. MaxPnl}]] : n \in 1 .. MaxTrades}

\* _calculate_stats is entered with the trades of a finished simulation.
InitStats ==
    /\ pc = "profit_factor"
    /\ results \in [trades : TradeLists]
    /\ config = Kwargs(R(64), <<1, 4>>, <<1, 2>>, Unset, Unset)
    /\ strategy = [entry_conditions |-> <<Cond("==", 1, "buy")>>,
                   exit_conditions  |-> <<Cond("==", 2, "sell")>>]
    /\ portfolio = None /\ data = None /\ timestamps = <<>> /\ ti = 0
    /\ signals = <<>> /\ oi = 0 /\ stats = None /\ result = None
    /\ error = None /\ run = 1 /\ first = None /\ seed = 1 /\ clock = 1
    /\ indlog = <<>>
    /\ suspended = None

\* The profit_factor argument of TradeStats(...) is evaluated.
ProfitFactor ==
    /\ pc = "profit_factor"
    /\ stats' = [profit_factor |-> profit_factor(results.trades)]
    /\ pc' = "profit_factor_done"
    /\ UNCHANGED <<config, strategy, portfolio, data, timestamps, ti, signals,
                   oi, results, result, error, run, first, seed, clock, indlog,
                   suspended>>

NextStats == ProfitFactor

SpecStats == InitStats /\ [][NextStats]_vars

\* C15: the profit factor is +infinity when there is a winning trade and no
\* losing trade, and a finite number for every other non-empty trade list.
C15_ProfitFactor ==
    pc = "profit_factor_done" =>
        LET trades == results.trades
            wins   == \E k \in DOMAIN trades : RLt(Zero, trades[k].pnl)
            losses == \E k \in DOMAIN trades : RLe(trades[k].pnl, Zero)
        IN  IF wins /\ ~losses
            THEN stats.profit_factor.kind = "inf"
            ELSE stats.profit_factor.kind = "finite"

----------------------------------------------------------------------------
(* Statistics, trades, signals and the order of the steps. *)

C16_ZeroStats(st) ==
    /\ st.total_trades = 0
    /\ st.win_rate = Zero
    /\ st.profit_factor = Zero
    /\ st.total_pnl = Zero
    /\ st.total_commission = Zero
    /\ st.total_slippage = Zero

C16_StatsStep ==
    (pc = "stats" /\ results.trades = <<>>)
    => /\ pc' = "result"
       /\ C16_ZeroStats(stats')

C16_ResultStep ==
    (pc = "result" /\ results.trades = <<>>)
    => /\ pc' = "Completed"
       /\ C16_ZeroStats(result'.stats)
       /\ result'.trades = <<>>
       /\ result'.orders = results.orders
       /\ result'.positions = results.positions

\* C16: a simulation that closed no trade gets a TradeStats with every field
\* at zero and returns a BacktestResult holding it, also when orders were
\* filled or rejected and positions are still open.
C16_ZeroTradeStats == [][C16_StatsStep /\ C16_ResultStep]_vars

C16_Witness ==
    /\ pc = "Completed"
    /\ result.trades = <<>>
    /\ result.positions # <<>>
    /\ \E k \in DOMAIN result.orders : result.orders[k].status = "filled"
    /\ \E k \in DOMAIN result.orders : result.orders[k].status = "rejected"

C17_SignOfPnl ==
    \A k \in DOMAIN Trades :
        LET t == Trades[k]
        IN  t.type = "long" =>
               /\ RLt(t.entry_price, t.exit_price) => RLt(Zero, t.pnl)
               /\ RLt(t.exit_price, t.entry_price) => RLt(t.pnl, Zero)

C17_EntryIsPositions ==
    (Becomes("filled") /\ Len(portfolio'.trades) > Len(portfolio.trades))
    => LET p == PositionIndex(portfolio.positions, portfolio.orders[oi].symbol)
           t == portfolio'.trades[Len(portfolio'.trades)]
       IN  /\ p # 0
           /\ t.entry_price = portfolio.positions[p].entry_price
           /\ t.exit_price = portfolio'.orders[oi].fill_price

C17_EntryIsWeighted ==
    (/\ Becomes("filled")
     /\ portfolio.orders[oi].side = "buy"
     /\ PositionIndex(portfolio.positions, portfolio.orders[oi].symbol) # 0)
    => LET p   == PositionIndex(portfolio.positions, portfolio.orders[oi].symbol)
           old == portfolio.positions[p]
           new == portfolio'.positions[p]
           o   == portfolio'.orders[oi]
       IN  /\ new.quantity = RAdd(old.quantity, o.quantity)
           /\ RMul(new.entry_price, new.quantity)
                 = RAdd(RMul(old.entry_price, old.quantity),
                        RMul(o.fill_price, o.quantity))

\* C17: a closed long trade with exit_price > entry_price has pnl > 0 and one
\* with exit_price < entry_price has pnl < 0, entry_price being the open
\* position's entry price, the volume-weighted price of its buys.
C17_PnlSign ==
    []C17_SignOfPnl /\ [][C17_EntryIsPositions /\ C17_EntryIsWeighted]_vars

C17_Witness ==
    /\ \E k \in DOMAIN Trades : RLt(Zero, Trades[k].pnl)
    /\ \E k \in DOMAIN Trades : RLt(Trades[k].pnl, Zero)

\* The signal is one the claim says is dropped: an entry for a symbol with an
\* open position, or an exit for a symbol without one.
C18_IsDropped(signal) ==
    LET open == PositionIndex(portfolio.positions, signal.symbol) # 0
    IN  \/ signal.type = "ENTRY" /\ open
        \/ signal.type = "EXIT" /\ ~open

C18_IsKept(signal) == ~C18_IsDropped(signal)

C18_Step ==
    pc = "process_signals" =>
        LET kept == SelectSeq(signals, C18_IsKept)
            n    == Len(portfolio.orders)
        IN  /\ Len(portfolio'.orders) = n + Len(kept)
            /\ SubSeq(portfolio'.orders, 1, n) = portfolio.orders
            /\ \A j \in DOMAIN kept :
                  /\ portfolio'.orders[n + j].symbol = kept[j].symbol
                  /\ portfolio'.orders[n + j].status = "pending"
            /\ portfolio'.cash = portfolio.cash
            /\ portfolio'.equity = portfolio.equity
            /\ portfolio'.positions = portfolio.positions
            /\ portfolio'.trades = portfolio.trades
            /\ portfolio'.equity_curve = portfolio.equity_curve
            /\ kept = <<>> => portfolio' = portfolio

\* C18: an entry signal for a symbol with an open position and an exit signal
\* for a symbol without one create no order; signal processing appends one
\* pending order per other signal and changes nothing else of the portfolio.
C18_DroppedSignals == [][C18_Step]_vars

C18_Witness ==
    /\ pc = "equity_curve"
    /\ \E k \in DOMAIN signals :
          /\ signals[k].type = "ENTRY"
          /\ PositionIndex(Positions, signals[k].symbol) # 0
          /\ \A j \in DOMAIN Orders :
                Orders[j].timestamp = Now => Orders[j].symbol # signals[k].symbol
    /\ \E k \in DOMAIN signals :
          /\ signals[k].type = "EXIT"
          /\ PositionIndex(Positions, signals[k].symbol) = 0
          /\ \A j \in DOMAIN Orders :
                Orders[j].timestamp = Now => Orders[j].symbol # signals[k].symbol

\* The steps of one timestamp.
C19_InTimestamp ==
    {"update", "signals", "process_signals", "process_orders", "equity_curve"}

C19_Step ==
    /\ pc = "Running" => pc' \in {"update", "return"}
    /\ pc = "update" => pc' \in {"signals", "Failed"}
    /\ pc = "signals" => pc' = "process_signals"
    /\ pc = "process_signals" =>
          /\ pc' \in {"process_orders", "equity_curve", "Failed"}
          /\ pc' = "equity_curve" =>
                \A k \in DOMAIN portfolio'.orders :
                    portfolio'.orders[k].status # "pending"
    /\ pc = "process_orders" =>
          /\ pc' \in {"process_orders", "equity_curve", "Failed"}
          /\ pc' = "equity_curve" =>
                \A k \in DOMAIN portfolio'.orders :
                    portfolio'.orders[k].status # "pending"
    /\ pc = "equity_curve" =>
          /\ pc' \in {"update", "return"}
          /\ Len(portfolio'.equity_curve) = Len(portfolio.equity_curve) + 1
          /\ portfolio'.equity_curve[Len(portfolio'.equity_curve)].timestamp = Now
          /\ pc' = "update" => ti' = ti + 1 /\ timestamps[ti] < timestamps[ti']
          /\ pc' = "return" => ti = Len(timestamps)
    /\ (pc \in C19_InTimestamp /\ pc # "equity_curve") =>
          /\ ti' = ti
          /\ portfolio'.equity_curve = portfolio.equity_curve
    /\ (pc \in C19_InTimestamp /\ pc \notin {"process_signals"}) =>
          Len(portfolio'.orders) = Len(portfolio.orders)
    /\ (pc \in C19_InTimestamp) => timestamps' = timestamps
    /\ pc' = "update" => pc \in {"Running", "equity_curve"}

\* C19: within a timestamp the risk exit monitor runs first, then signal
\* generation, signal-to-order conversion, the processing of the pending
\* orders and the append of the equity point, in this order; timestamps are
\* taken in ascending order, the next one after the append.
C19_StepOrder == [][C19_Step]_vars

C19_Witness ==
    /\ pc = "update" /\ ti = 2
    /\ \E k \in DOMAIN Orders :
          Orders[k].timestamp = timestamps[1] /\ Orders[k].status = "filled"
    /\ Len(Curve) = 2

----------------------------------------------------------------------------
(* The condition check of _generate_signals (lines 264-274), evaluated for
   one entry condition and one mapping of indicator values. *)

\* Longest series and largest series element the evaluation is given.
MaxSeries == 2
MaxElement == 2

\* The operators a condition may name; "between" is none the code knows.
Operators == {">", "<", "==", "cross_above", "cross_below", "between"}

\* Conditions with every key; "gone" names no indicator of the mapping.
FullConditions ==
    [indicator  : {"sig", "gone"},
     operator   : Operators,
     value      : {1},
     side       : {"buy"},
     indicator1 : {"fast", "gone"},
     indicator2 : {"slow", "gone"}]

\* The condition without one of its keys.
WithoutKey(condition, key) ==
    [k \in DOMAIN condition \ {key} |-> condition[k]]

Conditions ==
    FullConditions
    \cup {WithoutKey(c, key) :
             c \in FullConditions,
             key \in {"indicator", "operator", "value", "indicator1", "indicator2"}}

SeriesValues ==
    {Series(s) : s \in UNION {[1 .. n -> 1 .. MaxElement] : n \in 0 .. MaxSeries}}

\* The mappings of indicator values the evaluation is given.
IndicatorMappings ==
    [sig  : {Scalar(0), Scalar(2), NotANumber},
     fast : SeriesValues \cup {Scalar(1)},
     slow : SeriesValues]

\* _generate_signals has computed the indicators of the first symbol's bar
\* and is about to check the strategy's entry condition.
InitCondition ==
    /\ pc = "check_condition"
    /\ \E c \in Conditions :
          strategy = [entry_conditions |-> <<c>>, exit_conditions |-> <<>>]
    /\ \E m \in IndicatorMappings :
          indlog = (StartDate :> (Symbols[1] :> m))
    /\ config = Kwargs(R(64), <<1, 4>>, <<1, 2>>, Unset, Unset)
    /\ portfolio = None /\ data = None /\ timestamps = <<StartDate>> /\ ti = 1
    /\ signals = <<>> /\ oi = 0 /\ results = None /\ stats = None
    /\ result = None /\ error = None /\ run = 1 /\ first = None /\ seed = 1
    /\ clock = 1
    /\ suspended = None

\* Lines 264-274: the entry condition is checked and a signal appended when
\* it holds.
CheckCondition ==
    /\ pc = "check_condition"
    /\ signals' = ConditionSignals(strategy.entry_conditions, 1, "ENTRY",
                                   Symbols[1], Now,
                                   [close      |-> R(2),
                                    indicators |-> indlog[Now][Symbols[1]]])
    /\ pc' = "check_condition_done"
    /\ UNCHANGED <<config, strategy, portfolio, data, timestamps, ti, oi,
                   results, stats, result, error, run, first, seed, clock,
                   indlog, suspended>>

NextCondition == CheckCondition

SpecCondition == InitCondition /\ [][NextCondition]_vars

\* The condition that was checked and the mapping it was checked against.
C20_Condition == strategy.entry_conditions[1]
C20_Indicators == indlog[StartDate][Symbols[1]]

C20_MissingKey ==
    \/ {"indicator", "operator", "value"} \ DOMAIN C20_Condition # {}
    \/ /\ "operator" \in DOMAIN C20_Condition
       /\ C20_Condition.operator \in {"cross_above", "cross_below"}
       /\ {"indicator1", "indicator2"} \ DOMAIN C20_Condition # {}

C20_MissingIndicator ==
    /\ "indicator" \in DOMAIN C20_Condition
    /\ C20_Condition.indicator \notin DOMAIN C20_Indicators

C20_UnknownOperator ==
    /\ "operator" \in DOMAIN C20_Condition
    /\ C20_Condition.operator
          \notin {">", "<", ">=", "<=", "==", "cross_above", "cross_below"}

C20_BadSeries(name) ==
    \/ name \notin DOMAIN C20_Indicators
    \/ "series" \notin DOMAIN C20_Indicators[name]
    \/ Len(C20_Indicators[name].series) < 2

C20_MissingOrShortSeries ==
    /\ {"operator", "indicator1", "indicator2"} \subseteq DOMAIN C20_Condition
    /\ C20_Condition.operator \in {"cross_above", "cross_below"}
    /\ \/ C20_BadSeries(C20_Condition.indicator1)
       \/ C20_BadSeries(C20_Condition.indicator2)

C20_LookupFailure ==
    \/ C20_MissingKey
    \/ C20_MissingIndicator
    \/ C20_UnknownOperator
    \/ C20_MissingOrShortSeries

\* C20: the check of a condition never raises; when a lookup fails (a key
\* or an indicator is missing, the operator is unknown, a comparison series
\* is missing or too short) it gives false: no signal is emitted and the
\* run goes on.
C20_LookupFailureIsFalse ==
    /\ pc \in {"check_condition", "check_condition_done"}
    /\ error = None
    /\ (pc = "check_condition_done" /\ C20_LookupFailure) => signals = <<>>

C20_Witness ==
    /\ pc = "check_condition_done"
    /\ C20_MissingOrShortSeries
    /\ ~C20_MissingKey /\ ~C20_MissingIndicator
    /\ signals = <<>>

----------------------------------------------------------------------------
(* C22 *)

\* The fields of an order that _process_orders writes when it fills it are
\* as BacktestOrder(...) left them.
C22_NoFillData(order) ==
    /\ order.fill_price = Unset
    /\ order.fill_timestamp = NoTime
    /\ order.commission = Zero
    /\ order.slippage = Zero

\* C22: after order processing, an order has a fill price, a fill
\* timestamp, or a non-zero commission or slippage only if its status is
\* filled; rejected and pending orders carry none.
C22_FillDataOnlyOnFilled ==
    \A k \in DOMAIN Orders :
        Orders[k].status # "filled" => C22_NoFillData(Orders[k])

----------------------------------------------------------------------------
(* C23 *)

\* A step of _process_orders that fills a buy finds no position of the
\* order's symbol, and leaves every position that is open as it was in
\* quantity and entry price.
C23_Step ==
    Becomes("filled") /\ portfolio.orders[oi].side = "buy" =>
        /\ PositionIndex(portfolio.positions, portfolio.orders[oi].symbol) = 0
        /\ \A p \in DOMAIN portfolio.positions :
              LET q == PositionIndex(portfolio'.positions,
                                     portfolio.positions[p].symbol)
              IN  /\ q # 0
                  /\ portfolio'.positions[q].quantity =
                        portfolio.positions[p].quantity
                  /\ portfolio'.positions[q].entry_price =
                        portfolio.positions[p].entry_price

\* C23: once a symbol has an open position, no later buy fill increases its
\* quantity or changes its entry price until it is closed, also when several
\* entry conditions match the symbol at one timestamp: an entry order is
\* filled only while its symbol has no position.
C23_NoPyramiding == [][C23_Step]_vars

----------------------------------------------------------------------------
(* C24 *)

\* The order the loop of _process_orders is looking at is the sell order of
\* an exit signal of the timestamp being simulated.
C24_ExitOrder ==
    /\ pc = "process_orders"
    /\ portfolio.orders[oi].status = "pending"
    /\ portfolio.orders[oi].side = "sell"
    /\ \E k \in DOMAIN signals :
          /\ signals[k].type = "EXIT"
          /\ signals[k].symbol = portfolio.orders[oi].symbol

\* The step that processes the sell order of an exit signal fills it at this
\* timestamp against the symbol's long position, for the position's whole
\* quantity: the position is gone, one Trade of that quantity is appended
\* and cash grows by fill_price * quantity - commission.
C24_Step ==
    C24_ExitOrder =>
        LET order == portfolio.orders[oi]
            filled == portfolio'.orders[oi]
            p == PositionIndex(portfolio.positions, order.symbol)
        IN  /\ p # 0
            /\ portfolio.positions[p].type = "long"
            /\ order.quantity = portfolio.positions[p].quantity
            /\ filled.status = "filled"
            /\ filled.fill_timestamp = Now
            /\ PositionIndex(portfolio'.positions, order.symbol) = 0
            /\ Len(portfolio'.trades) = Len(portfolio.trades) + 1
            /\ portfolio'.trades[Len(portfolio'.trades)].symbol = order.symbol
            /\ portfolio'.trades[Len(portfolio'.trades)].quantity =
                  portfolio.positions[p].quantity
            /\ portfolio'.cash =
                  RAdd(portfolio.cash,
                       RSub(RMul(filled.fill_price, filled.quantity),
                            filled.commission))

\* At the end of a timestamp a symbol with an exit signal has no position,
\* and at most one sell order of this timestamp.
C24_AtEnd ==
    pc = "equity_curve" =>
        \A k \in DOMAIN signals :
            signals[k].type = "EXIT" =>
                /\ PositionIndex(Positions, signals[k].symbol) = 0
                /\ Cardinality({j \in DOMAIN Orders :
                                   /\ Orders[j].symbol = signals[k].symbol
                                   /\ Orders[j].side = "sell"
                                   /\ Orders[j].timestamp = Now}) <= 1

\* C24: a qualifying exit signal for a long position creates one market
\* sell order for the position's full quantity, filled at the same
\* timestamp; at the end of that timestamp the symbol has no open position,
\* one Trade with the position's quantity has been appended, and cash has
\* grown by fill_price * quantity - commission exactly once.
C24_ExitClosesPosition == []C24_AtEnd /\ [][C24_Step]_vars

----------------------------------------------------------------------------
(* C28 *)

\* A step of _process_orders that marks a sell order filled, or that adds
\* the proceeds of a sell order to cash, finds an open long position of the
\* order's symbol with at least the order's quantity.
C28_Step ==
    /\ pc = "process_orders"
    /\ portfolio.orders[oi].status = "pending"
    /\ portfolio.orders[oi].side = "sell"
    /\ \/ portfolio'.orders[oi].status = "filled"
       \/ portfolio'.cash # portfolio.cash
    => LET order == portfolio.orders[oi]
           p == PositionIndex(portfolio.positions, order.symbol)
       IN  /\ p # 0
           /\ portfolio.positions[p].type = "long"
           /\ RLe(order.quantity, portfolio.positions[p].quantity)

\* No position is short.
C28_NoShortPosition ==
    \A p \in DOMAIN Positions : Positions[p].type = "long"

\* C28: a sell order is filled, and cash credited with its proceeds, only
\* when its symbol has an open long position of at least the order's
\* quantity; no sequence of signals credits cash for a sell that has no
\* position, or creates a short position.
C28_SellNeedsPosition == []C28_NoShortPosition /\ [][C28_Step]_vars

----------------------------------------------------------------------------
(* C27 *)

\* pnl - commission of each trade, in the order of the trades.
C27_NetOfTrades(trades) ==
    [k \in DOMAIN trades |-> RSub(trades[k].pnl, trades[k].commission)]

\* The orders of the timestamp have been processed and no position is open.
C27_FlatAtEnd == pc = "equity_curve" /\ Positions = <<>>

----------------------------------------------------------------------------
(* C30 *)

\* An order that is pending belongs to the timestamp being simulated, whose
\* orders are still being processed (or whose processing raised).
C30_PendingIsCurrent ==
    \A k \in DOMAIN Orders :
        Orders[k].status = "pending" =>
            /\ pc \in {"process_orders", "Failed"}
            /\ Orders[k].timestamp = Now

\* Every order was created for a symbol that has a bar at the order's
\* timestamp.
C30_CreatedWithBar ==
    \A k \in DOMAIN Orders :
        HasBar(data, Orders[k].symbol, Orders[k].timestamp)

\* C30: no order stays pending across timestamps: when a timestamp's equity
\* point is appended every order is filled or rejected, because an order is
\* only created for a symbol that has a bar at the creation timestamp and
\* is processed in that timestamp.
C30_NoneStaysPending ==
    /\ C30_PendingIsCurrent
    /\ C30_CreatedWithBar
    /\ pc = "equity_curve" =>
          \A k \in DOMAIN Orders : Orders[k].status \in {"filled", "rejected"}

\* The second timestamp's point is about to be appended, with orders of
\* both timestamps, two of them of the second.
C30_Witness ==
    /\ pc = "equity_curve"
    /\ ti = 2
    /\ \E k \in DOMAIN Orders : Orders[k].timestamp = timestamps[1]
    /\ \E j, k \in DOMAIN Orders :
          j # k /\ Orders[j].timestamp = Now /\ Orders[k].timestamp = Now

----------------------------------------------------------------------------
(* C26 *)

\* The condition checked is a crossover condition that names two series,
\* and the mapping has both, each with a previous and a current value.
C26_CrossoverOfPresentSeries ==
    /\ "operator" \in DOMAIN C20_Condition
    /\ C20_Condition.operator \in {"cross_above", "cross_below"}
    /\ {"indicator1", "indicator2"} \subseteq DOMAIN C20_Condition
    /\ \A name \in {C20_Condition.indicator1, C20_Condition.indicator2} :
          /\ name \in DOMAIN C20_Indicators
          /\ IsSeries(C20_Indicators[name])
          /\ Len(C20_Indicators[name].series) >= 2

\* The relation of the two series flips on the last bar in the direction of
\* the operator.
C26_Flips ==
    LET s1 == C20_Indicators[C20_Condition.indicator1].series
        s2 == C20_Indicators[C20_Condition.indicator2].series
        n1 == Len(s1)
        n2 == Len(s2)
    IN  IF C20_Condition.operator = "cross_above"
        THEN s1[n1 - 1] <= s2[n2 - 1] /\ s1[n1] > s2[n2]
        ELSE s1[n1 - 1] >= s2[n2 - 1] /\ s1[n1] < s2[n2]

\* C26: for a crossover condition that names two series both present in
\* the mapping, cross_above is true exactly when previous(s1) <=
\* previous(s2) and current(s1) > current(s2), cross_below exactly when
\* previous(s1) >= previous(s2) and current(s1) < current(s2), and false
\* otherwise.
C26_Crossover ==
    pc = "check_condition_done" /\ C26_CrossoverOfPresentSeries =>
        (signals # <<>> <=> C26_Flips)

----------------------------------------------------------------------------
(* C25 *)

\* A step of _process_orders that fills a buy for a symbol without a
\* position finds fewer than max_positions positions open.
C25_Step ==
    /\ Becomes("filled")
    /\ portfolio.orders[oi].side = "buy"
    /\ PositionIndex(portfolio.positions, portfolio.orders[oi].symbol) = 0
    => Len(portfolio.positions) < config.max_positions

\* The number of open positions is at most config.max_positions.
C25_WithinMaximum == Live => Len(Positions) <= config.max_positions

\* C25: the number of open positions never exceeds config.max_positions in
\* any reachable state; an entry order that would open a position beyond
\* the maximum is not filled.
C25_MaxPositions == []C25_WithinMaximum /\ [][C25_Step]_vars

----------------------------------------------------------------------------
(* C29 *)

\* C29: in every reachable state of a run with a valid BacktestConfig the
\* cash of the portfolio is not negative.
C29_CashNotNegative ==
    Live /\ BacktestConfigValid(config) => RLe(Zero, portfolio.cash)

----------------------------------------------------------------------------
(* C21 *)

\* Every order of a call's portfolio, and of what the call returns, was
\* created by that call: its id was drawn from the call's entropy.
C21_Owns(locals) ==
    /\ locals.pc \notin {"new", "Initialized", "ConfigurationError"} =>
          \A k \in DOMAIN locals.portfolio.orders :
              locals.portfolio.orders[k].id[1] = locals.seed
    /\ locals.pc = "Completed" =>
          /\ locals.result.id[1] = locals.seed
          /\ \A k \in DOMAIN locals.result.orders :
                locals.result.orders[k].id[1] = locals.seed

C21_OwnState == C21_Owns(Locals) /\ C21_Owns(suspended)

\* A step that resumes the other call gives it the locals it was suspended
\* with and keeps those of the call it suspends; every other step is a step
\* of the call that is running and leaves the suspended call's locals alone.
C21_Step ==
    IF seed' # seed
    THEN /\ suspended' = Locals
         /\ pc' = suspended.pc
         /\ config' = suspended.config
         /\ strategy' = suspended.strategy
         /\ timestamps' = suspended.timestamps
         /\ ti' = suspended.ti
         /\ signals' = suspended.signals
         /\ oi' = suspended.oi
         /\ error' = suspended.error
         /\ suspended.pc \notin {"new", "Initialized"} =>
               portfolio' = suspended.portfolio
    ELSE /\ suspended' = suspended
         /\ Next

====
